---- MODULE Spec2Model ----
(***************************************************************************)
(* Model of modernizer.py: the settings store, the completion client with  *)
(* its fixed retry loop, process_document running on worker threads, and   *)
(* the handlers of the Flet page (file picker, settings dialog, start).    *)
(*                                                                         *)
(* Texts are sequences of one-character strings, so that str.strip() is    *)
(* computed rather than assumed.  A progress value p/t is the pair <<p,t>>;*)
(* <<0,0>> stands for the initial None of ProgressBar.value.               *)
(***************************************************************************)
EXTENDS Integers, Sequences, FiniteSets, TLC

\* ---------------------------------------------------------------- bounds
MaxParagraphs == 3
MaxRetriesBound == 3
MaxWorkers == 2

\* ------------------------------------------------------ program constants
DefaultMaxRetries == 3
DefaultRetryDelay == 5

\* Besides the program's own variables a thread record carries history fields
\* read only by the properties: mt_calls and mt_fails (requests sent and failed
\* in the current modernize_text call), ever_failed, progress_calls (the values
\* handed to the callback), request (the request of the current modernize_text
\* call), start_settings (the settings at launch), save_count and saved_doc
\* (what new_doc.save wrote), error and outcome.
VARIABLES
  settings,          \* the module-level settings dict
  settings_file,     \* settings.json on disk
  client_key,        \* api_key the module-level OpenAI client was built with
  input_file,        \* input_file.value
  output_file,       \* output_file.value
  progress_visible,  \* progress_bar.visible and progress_label.visible
  progress_value,    \* progress_bar.value
  progress_label,    \* the percentage shown by progress_label
  snack_bar_open,    \* page.snack_bar.open
  dialog_open,       \* settings_dialog.open
  model_options,     \* options of model_dropdown while the dialog is open
  documents,         \* the input documents on disk, by path
  max_retries,       \* the max_retries argument of modernize_text
  thr                \* the threads running process_document

vars == <<settings, settings_file, client_key, input_file, output_file,
          progress_visible, progress_value, progress_label, snack_bar_open,
          dialog_open, model_options, documents, max_retries, thr>>

gui_vars == <<settings, settings_file, client_key, input_file, output_file,
              progress_visible, snack_bar_open, dialog_open, model_options>>

Workers == 1..MaxWorkers

\* ------------------------------------------------------------------ texts
Whitespace == {" ", "\t", "\n"}

Texts == { <<>>, <<" ">>, <<"a">>, <<" ", "b">> }

RECURSIVE LStrip(_)
LStrip(s) ==
  IF s = <<>> THEN s
  ELSE IF Head(s) \in Whitespace THEN LStrip(Tail(s)) ELSE s

RECURSIVE RStrip(_)
RStrip(s) ==
  IF s = <<>> THEN s
  ELSE IF s[Len(s)] \in Whitespace THEN RStrip(SubSeq(s, 1, Len(s) - 1)) ELSE s

\* str.strip()
Strip(s) == RStrip(LStrip(s))

NonEmptyTest(text) == Strip(text) /= <<>>

\* line 103: [p for p in doc.paragraphs if p.text.strip() != '']
non_empty_paragraphs(paragraphs) == SelectSeq(paragraphs, NonEmptyTest)

SkipTestNoStrip(text) == text = <<>>

\* line 111: if original_text.strip() == ''
SkipTest(text) == Strip(text) = <<>>

LoopExhaustedEarly(idx, paragraphs) == idx >= Len(paragraphs)

\* line 109: the for loop over doc.paragraphs has run out (idx is 1-based)
LoopExhausted(idx, paragraphs) == idx > Len(paragraphs)

\* ------------------------------------------------------------- documents
RECURSIVE SeqsUpTo(_, _)
SeqsUpTo(S, n) ==
  IF n = 0 THEN { <<>> }
  ELSE LET shorter == SeqsUpTo(S, n - 1)
       IN  shorter \cup { Append(s, x) : s \in { t \in shorter : Len(t) = n - 1 }, x \in S }

InputPath == <<"book", "docx">>

Paths == { InputPath }

\* line 195: input_path.rsplit(".", 1)[0] + "-modernized.docx"
\* (a path is the sequence of its dot-separated components)
DerivedOutputPath(path) ==
  IF Len(path) <= 1
    THEN <<path[1] \o "-modernized", "docx">>
    ELSE SubSeq(path, 1, Len(path) - 2)
           \o <<path[Len(path) - 1] \o "-modernized", "docx">>

\* ---------------------------------------------------------------- settings
DefaultPrompt == "You are a helpful assistant that modernizes sentences ..."

FallbackModels == {"gpt-4o", "gpt-4", "gpt-3.5-turbo"}

DefaultSettings == [api_key |-> "", model |-> "gpt-4o", prompt |-> DefaultPrompt]

\* what the user leaves in the three dialog fields when pressing Save
DialogEntries ==
  { [api_key |-> "sk-1", model |-> "gpt-4o", prompt |-> DefaultPrompt],
    [api_key |-> "", model |-> "gpt-4", prompt |-> ""] }

RemoteModelLists == { {"gpt-4o", "gpt-4"} }

\* lines 29-46
load_settings(file) ==
  IF file.state = "valid" THEN file.content ELSE DefaultSettings

\* lines 52-61; remote is the service's answer: a set of model ids or "error"
get_available_models(api_key, remote) ==
  IF api_key = "" THEN FallbackModels
  ELSE IF remote.error THEN FallbackModels ELSE remote.models

\* ------------------------------------------------------- completion client
NoneText == [kind |-> "None", text |-> <<>>]

\* response.choices[0].message.content (line 74): the service's completion for
\* the user text, the same text always getting the same completion
Response(text) == [kind |-> "str", text |-> <<"modern">> \o text]

NoCall == [made |-> FALSE, api_key |-> "", model |-> "", prompt |-> "", text |-> <<>>]

\* lines 66-72: the request as it leaves the client
Request(text) ==
  [made |-> TRUE, api_key |-> client_key, model |-> settings["model"],
   prompt |-> settings["prompt"], text |-> text]

ShouldSleepOffByOne(attempt, retries) == attempt < retries - 2

\* line 77: if attempt < max_retries - 1
ShouldSleep(attempt, retries) == attempt < retries - 1

ProgressFractionStale(processed_count, total_paragraphs) ==
  <<processed_count - 1, total_paragraphs>>

\* line 131: progress = processed_count / total_paragraphs
ProgressFraction(processed_count, total_paragraphs) ==
  <<processed_count, total_paragraphs>>

\* line 183: int(value * 100)
Percent(value) == (value[1] * 100) \div value[2]

HandlerReraises == "raised"

\* lines 137-138: the handler prints and falls off the end of process_document
HandlerOutcome == "returned"

\* ----------------------------------------------------------------- threads
IdleThread ==
  [pc |-> "idle", input_path |-> <<>>, output_path |-> <<>>,
   paragraphs |-> <<>>, total_paragraphs |-> 0, idx |-> 1,
   processed_count |-> 0, new_doc |-> <<>>, original_text |-> <<>>,
   modernized_text |-> NoneText, attempt |-> 0, slept |-> 0,
   error |-> "none", printed_error |-> FALSE, outcome |-> "none",
   save_count |-> 0, saved_doc |-> <<>>,
   mt_calls |-> 0, mt_fails |-> 0, ever_failed |-> FALSE,
   progress_calls |-> <<>>, request |-> NoCall,
   start_settings |-> DefaultSettings]

\* line 320-323: threading.Thread(target=process_document, args=(...)).start()
StartedThread(input_path, output_path) ==
  [IdleThread EXCEPT !.pc = "open", !.input_path = input_path,
                     !.output_path = output_path, !.start_settings = settings]

\* lines 99-107, the input document opens
OpenDocument(w) ==
  /\ thr[w].pc = "open"
  /\ documents[thr[w].input_path].readable
  /\ LET paragraphs == documents[thr[w].input_path].paragraphs
     IN  thr' = [thr EXCEPT ![w] =
                   [@ EXCEPT !.paragraphs = paragraphs,
                             !.total_paragraphs = Len(non_empty_paragraphs(paragraphs)),
                             !.processed_count = 0,
                             !.idx = 1,
                             !.pc = "loop"]]
  /\ UNCHANGED <<gui_vars, progress_value, progress_label, documents, max_retries>>

\* line 99, docx.Document(input_path) raises
OpenDocumentFails(w) ==
  /\ thr[w].pc = "open"
  /\ ~documents[thr[w].input_path].readable
  /\ thr' = [thr EXCEPT ![w] = [@ EXCEPT !.error = "input", !.pc = "except"]]
  /\ UNCHANGED <<gui_vars, progress_value, progress_label, documents, max_retries>>

\* lines 109-113
SkipEmpty(w) ==
  /\ thr[w].pc = "loop"
  /\ ~LoopExhausted(thr[w].idx, thr[w].paragraphs)
  /\ SkipTest(thr[w].paragraphs[thr[w].idx])
  /\ thr' = [thr EXCEPT ![w] = [@ EXCEPT !.idx = @ + 1]]
  /\ UNCHANGED <<gui_vars, progress_value, progress_label, documents, max_retries>>

\* lines 109-116 and 63-64: a non-empty paragraph enters modernize_text
EnterModernize(w) ==
  /\ thr[w].pc = "loop"
  /\ ~LoopExhausted(thr[w].idx, thr[w].paragraphs)
  /\ ~SkipTest(thr[w].paragraphs[thr[w].idx])
  /\ thr' = [thr EXCEPT ![w] =
               [@ EXCEPT !.original_text = thr[w].paragraphs[thr[w].idx],
                         !.attempt = 0,
                         !.slept = 0,
                         !.mt_calls = 0,
                         !.mt_fails = 0,
                         !.modernized_text = NoneText,
                         !.pc = IF 0 < max_retries THEN "call" ELSE "append"]]
  /\ UNCHANGED <<gui_vars, progress_value, progress_label, documents, max_retries>>

\* lines 65-74: the completion call returns
CompletionSucceeds(w) ==
  /\ thr[w].pc = "call"
  /\ LET req == Request(thr[w].original_text)
     IN  thr' = [thr EXCEPT ![w] =
                   [@ EXCEPT !.modernized_text = Response(req.text),
                             !.request = req,
                             !.mt_calls = @ + 1,
                             !.pc = "append"]]
  /\ UNCHANGED <<gui_vars, progress_value, progress_label, documents, max_retries>>

\* lines 65-80: the completion call raises
CompletionFails(w) ==
  /\ thr[w].pc = "call"
  /\ LET req == Request(thr[w].original_text)
         t == [thr[w] EXCEPT !.request = req,
                             !.mt_calls = @ + 1,
                             !.mt_fails = @ + 1,
                             !.ever_failed = TRUE]
     IN  thr' = [thr EXCEPT ![w] =
                   IF ShouldSleep(t.attempt, max_retries)
                     THEN [t EXCEPT !.slept = @ + DefaultRetryDelay,
                                    !.attempt = @ + 1,
                                    \* range(max_retries) running out returns None
                                    !.pc = IF t.attempt + 1 < max_retries
                                             THEN "call" ELSE "append"]
                     ELSE [t EXCEPT !.error = "completion", !.pc = "except"]]
  /\ UNCHANGED <<gui_vars, progress_value, progress_label, documents, max_retries>>

\* lines 117-133 for one paragraph, with update_progress (lines 181-184)
AppendRow(w) ==
  /\ thr[w].pc = "append"
  /\ LET t == thr[w]
         row == [original |-> t.original_text, modernized |-> t.modernized_text]
         count == t.processed_count + 1
         value == ProgressFraction(count, t.total_paragraphs)
     IN  IF t.modernized_text.kind = "None"
           THEN \* line 117: None[:50] raises TypeError
                /\ thr' = [thr EXCEPT ![w] = [t EXCEPT !.error = "type", !.pc = "except"]]
                /\ UNCHANGED <<progress_value, progress_label>>
           ELSE IF t.total_paragraphs = 0
             THEN \* line 131: ZeroDivisionError, after the row was added
                  /\ thr' = [thr EXCEPT ![w] =
                               [t EXCEPT !.new_doc = Append(@, row),
                                         !.processed_count = count,
                                         !.error = "zerodivision",
                                         !.pc = "except"]]
                  /\ UNCHANGED <<progress_value, progress_label>>
             ELSE /\ thr' = [thr EXCEPT ![w] =
                               [t EXCEPT !.new_doc = Append(@, row),
                                         !.processed_count = count,
                                         !.progress_calls = Append(@, value),
                                         !.idx = @ + 1,
                                         !.attempt = 0,
                                         !.slept = 0,
                                         !.mt_calls = 0,
                                         !.mt_fails = 0,
                                         !.request = NoCall,
                                         !.pc = "loop"]]
                  /\ progress_value' = value
                  /\ progress_label' = Percent(value)
  /\ UNCHANGED <<gui_vars, documents, max_retries>>

\* lines 117-133 where the callback's page.update() (line 184) raises
AppendRowCallbackRaises(w) ==
  /\ thr[w].pc = "append"
  /\ thr[w].modernized_text.kind = "str"
  /\ thr[w].total_paragraphs > 0
  /\ LET t == thr[w]
         row == [original |-> t.original_text, modernized |-> t.modernized_text]
         count == t.processed_count + 1
         value == ProgressFraction(count, t.total_paragraphs)
     IN  /\ thr' = [thr EXCEPT ![w] =
                      [t EXCEPT !.new_doc = Append(@, row),
                                !.processed_count = count,
                                !.progress_calls = Append(@, value),
                                !.attempt = 0,
                                !.slept = 0,
                                !.mt_calls = 0,
                                !.mt_fails = 0,
                                !.request = NoCall,
                                !.error = "callback",
                                !.pc = "except"]]
         /\ progress_value' = value
         /\ progress_label' = Percent(value)
  /\ UNCHANGED <<gui_vars, documents, max_retries>>

\* lines 135-136 after the loop, the file is written
SaveDocument(w) ==
  /\ thr[w].pc = "loop"
  /\ LoopExhausted(thr[w].idx, thr[w].paragraphs)
  /\ thr' = [thr EXCEPT ![w] =
               [@ EXCEPT !.save_count = @ + 1,
                         !.saved_doc = thr[w].new_doc,
                         !.outcome = "returned",
                         !.pc = "done"]]
  /\ UNCHANGED <<gui_vars, progress_value, progress_label, documents, max_retries>>

\* line 135, new_doc.save(output_path) raises (unwritable path)
SaveDocumentFails(w) ==
  /\ thr[w].pc = "loop"
  /\ LoopExhausted(thr[w].idx, thr[w].paragraphs)
  /\ thr' = [thr EXCEPT ![w] = [@ EXCEPT !.error = "save", !.pc = "except"]]
  /\ UNCHANGED <<gui_vars, progress_value, progress_label, documents, max_retries>>

\* lines 137-138
ExceptHandler(w) ==
  /\ thr[w].pc = "except"
  /\ thr' = [thr EXCEPT ![w] =
               [@ EXCEPT !.printed_error = TRUE,
                         !.outcome = HandlerOutcome,
                         !.request = NoCall,
                         !.pc = "done"]]
  /\ UNCHANGED <<gui_vars, progress_value, progress_label, documents, max_retries>>

\* ------------------------------------------- process_document called alone
UnreadableDocument == [readable |-> FALSE, paragraphs |-> <<>>]

GuiDocument ==
  [readable |-> TRUE, paragraphs |-> << <<" ">>, <<" ", "b">> >>]

DocumentSet ==
  { [readable |-> TRUE, paragraphs |-> p] : p \in SeqsUpTo(Texts, MaxParagraphs) }
  \cup { UnreadableDocument }

InitDoc ==
  /\ settings = [DefaultSettings EXCEPT !.api_key = "sk-1"]
  /\ settings_file = [state |-> "valid", content |-> settings]
  /\ client_key = settings["api_key"]
  /\ input_file = InputPath
  /\ output_file = DerivedOutputPath(InputPath)
  /\ progress_visible = TRUE
  /\ progress_value = <<0, 0>>
  /\ progress_label = 0
  /\ snack_bar_open = FALSE
  /\ dialog_open = FALSE
  /\ model_options = {}
  /\ documents \in [Paths -> DocumentSet]
  /\ max_retries \in 1..MaxRetriesBound
  /\ thr = [w \in Workers |->
              IF w = 1 THEN StartedThread(input_file, output_file) ELSE IdleThread]

NextDoc ==
  \E w \in Workers :
    \/ OpenDocument(w)
    \/ OpenDocumentFails(w)
    \/ SkipEmpty(w)
    \/ EnterModernize(w)
    \/ CompletionSucceeds(w)
    \/ CompletionFails(w)
    \/ AppendRow(w)
    \/ AppendRowCallbackRaises(w)
    \/ SaveDocument(w)
    \/ SaveDocumentFails(w)
    \/ ExceptHandler(w)

SpecDoc == InitDoc /\ [][NextDoc]_vars

\* ------------------------------------------------------------ the Flet page
\* lines 189-198; files is e.files, a sequence of picked paths.  The settings
\* dialog is modal (line 300): while it is open the page behind it takes no
\* clicks, which is the first conjunct here and in the start actions.
file_picked(files) ==
  /\ ~dialog_open
  /\ IF files /= <<>>
       THEN /\ input_file' = files[1]
            /\ output_file' = DerivedOutputPath(files[1])
       ELSE UNCHANGED <<input_file, output_file>>
  /\ UNCHANGED <<settings, settings_file, client_key, progress_visible,
                 progress_value, progress_label, snack_bar_open, dialog_open,
                 model_options, documents, max_retries, thr>>

\* lines 200, 216-307 (the dialog is modal, line 300)
open_settings(remote) ==
  /\ ~dialog_open
  /\ dialog_open' = TRUE
  /\ model_options' = get_available_models(settings["api_key"], remote)
  /\ UNCHANGED <<settings, settings_file, client_key, input_file, output_file,
                 progress_visible, progress_value, progress_label,
                 snack_bar_open, documents, max_retries, thr>>

\* lines 201-209; the arguments are the values of the three dialog fields
\* (the dropdown holds its initial value or one of its options, lines 234-237)
save_and_close_settings(api_key_field, model_dropdown, prompt_field) ==
  /\ dialog_open
  /\ model_dropdown \in model_options \cup {settings["model"]}
  /\ settings' = [api_key |-> api_key_field, model |-> model_dropdown,
                  prompt |-> prompt_field]
  /\ settings_file' = [state |-> "valid", content |-> settings']
  /\ dialog_open' = FALSE
  /\ model_options' = {}
  /\ UNCHANGED <<client_key, input_file, output_file, progress_visible,
                 progress_value, progress_label, snack_bar_open, documents,
                 max_retries, thr>>

\* lines 211-214
cancel_settings ==
  /\ dialog_open
  /\ dialog_open' = FALSE
  /\ model_options' = {}
  /\ UNCHANGED <<settings, settings_file, client_key, input_file, output_file,
                 progress_visible, progress_value, progress_label,
                 snack_bar_open, documents, max_retries, thr>>

StartAllowedIgnoringKey(input_value, output_value, api_key) ==
  input_value /= <<>> /\ output_value /= <<>>

\* line 310, negated: all three values are present
StartAllowed(input_value, output_value, api_key) ==
  input_value /= <<>> /\ output_value /= <<>> /\ api_key /= ""

\* lines 309-314: the start action is rejected
start_processing_rejected ==
  /\ ~dialog_open
  /\ ~StartAllowed(input_file, output_file, settings["api_key"])
  /\ snack_bar_open' = TRUE
  /\ UNCHANGED <<settings, settings_file, client_key, input_file, output_file,
                 progress_visible, progress_value, progress_label, dialog_open,
                 model_options, documents, max_retries, thr>>

\* lines 309-323: the start action launches a thread
start_processing(w) ==
  /\ ~dialog_open
  /\ StartAllowed(input_file, output_file, settings["api_key"])
  /\ thr[w].pc = "idle"
  /\ \A v \in Workers : v < w => thr[v].pc /= "idle"
  /\ progress_visible' = TRUE
  /\ thr' = [thr EXCEPT ![w] = StartedThread(input_file, output_file)]
  /\ UNCHANGED <<settings, settings_file, client_key, input_file, output_file,
                 progress_value, progress_label, snack_bar_open, dialog_open,
                 model_options, documents, max_retries>>

\* --------------------------------------------------------- the whole program
SettingsFiles ==
  { [state |-> s, content |-> DefaultSettings] : s \in {"absent", "corrupt"} }
  \cup { [state |-> "valid", content |-> e] : e \in { d \in DialogEntries : d.prompt /= "" } }

RemoteAnswers ==
  { [error |-> TRUE, models |-> {}] }
  \cup { [error |-> FALSE, models |-> l] : l \in RemoteModelLists }

\* lines 48-50 at import, then main (lines 141-179)
Init ==
  /\ settings_file \in SettingsFiles
  /\ settings = load_settings(settings_file)
  /\ client_key = settings["api_key"]
  /\ input_file = <<>>
  /\ output_file = <<>>
  /\ progress_visible = FALSE
  /\ progress_value = <<0, 0>>
  /\ progress_label = 0
  /\ snack_bar_open = FALSE
  /\ dialog_open = FALSE
  /\ model_options = {}
  /\ documents \in [Paths -> {GuiDocument, UnreadableDocument}]
  /\ max_retries = DefaultMaxRetries
  /\ thr = [w \in Workers |-> IdleThread]

Next ==
  \/ \E files \in { <<>> } \cup { <<p>> : p \in Paths } : file_picked(files)
  \/ \E remote \in RemoteAnswers : open_settings(remote)
  \/ \E e \in DialogEntries : save_and_close_settings(e.api_key, e.model, e.prompt)
  \/ cancel_settings
  \/ start_processing_rejected
  \/ \E w \in Workers : start_processing(w)
  \/ \E w \in Workers :
       \/ OpenDocument(w)
       \/ OpenDocumentFails(w)
       \/ SkipEmpty(w)
       \/ EnterModernize(w)
       \/ CompletionSucceeds(w)
       \/ CompletionFails(w)
       \/ AppendRow(w)
       \/ AppendRowCallbackRaises(w)
       \/ SaveDocument(w)
       \/ SaveDocumentFails(w)
       \/ ExceptHandler(w)

Spec == Init /\ [][Next]_vars

\* ------------------------------------------------------------------ claims
Started(w) == thr[w].pc /= "idle"

InputOf(w) == documents[thr[w].input_path]

BlankText(text) == \A i \in 1..Len(text) : text[i] \in Whitespace

KeepsText(text) == ~BlankText(text)

\* the paragraphs that are neither empty nor whitespace-only, in order
NonBlank(paragraphs) == SelectSeq(paragraphs, KeepsText)

NonBlankCount(w) == Len(NonBlank(InputOf(w).paragraphs))

\* C1: modernize_text returns the completion after k < max_retries failures
\* followed by a success, having made k + 1 attempts and raised nothing; after
\* max_retries failures it has made exactly max_retries attempts and raises,
\* and process_document stays at the failing paragraph: no later paragraph is
\* processed, no row is added and nothing is saved.
C1_RetryContract ==
  \A w \in Workers :
    LET t == thr[w]
    IN  /\ t.pc = "append" =>
             /\ t.error = "none"
             /\ t.mt_fails < max_retries
             /\ t.mt_calls = t.mt_fails + 1
             /\ t.request.made
             /\ t.request.text = t.original_text
             /\ t.modernized_text = Response(t.original_text)
        /\ t.pc = "call" => t.mt_calls = t.mt_fails /\ t.mt_fails < max_retries
        /\ t.error = "completion" =>
             /\ t.pc \in {"except", "done"}
             /\ t.mt_fails = max_retries
             /\ t.mt_calls = max_retries
             /\ t.idx <= Len(t.paragraphs)
             /\ t.paragraphs[t.idx] = t.original_text
             /\ Len(t.new_doc) = Len(NonBlank(SubSeq(t.paragraphs, 1, t.idx - 1)))
             /\ t.processed_count = Len(t.new_doc)
             /\ t.save_count = 0

\* C1 witness: after an earlier paragraph went through, a paragraph used up
\* all of its three attempts and modernize_text raised.
C1_Witness ==
  \E w \in Workers :
    /\ thr[w].pc = "except"
    /\ thr[w].error = "completion"
    /\ max_retries = DefaultMaxRetries
    /\ thr[w].mt_calls = DefaultMaxRetries
    /\ Len(thr[w].new_doc) >= 1

\* C2: with N >= 1 non-empty paragraphs, no failed completion, and the input,
\* the callback and the save all working, the callback was invoked exactly N
\* times with 1/N, 2/N, ..., N/N, and the saved document holds exactly N rows
\* whose original cells are the non-empty paragraphs in order; a blank
\* paragraph never reaches the completion call, a row or the callback.
C2_ProgressAndRows ==
  \A w \in Workers :
    LET t == thr[w]
        N == NonBlankCount(w)
    IN  /\ t.pc \in {"call", "append"} => ~BlankText(t.original_text)
        /\ ( /\ Started(w)
             /\ InputOf(w).readable
             /\ ~t.ever_failed
             /\ t.error \notin {"callback", "save"}
             /\ t.pc \notin {"open"} )
           => /\ t.error = "none"
              /\ Len(t.progress_calls) = Len(t.new_doc)
              /\ \A i \in 1..Len(t.progress_calls) : t.progress_calls[i] = <<i, N>>
              /\ \A i \in 1..Len(t.new_doc) :
                   t.new_doc[i].original = NonBlank(t.paragraphs)[i]
              /\ t.pc = "done" =>
                   /\ Len(t.progress_calls) = N
                   /\ (N >= 1 => t.progress_calls[N] = <<N, N>>)
                   /\ t.saved_doc = t.new_doc
                   /\ Len(t.saved_doc) = N

\* C2 witness: a finished run over blank and non-blank paragraphs.
C2_Witness ==
  \E w \in Workers :
    /\ thr[w].pc = "done"
    /\ thr[w].error = "none"
    /\ ~thr[w].ever_failed
    /\ NonBlankCount(w) >= 2
    /\ Len(thr[w].paragraphs) > NonBlankCount(w)
    /\ Len(thr[w].saved_doc) = NonBlankCount(w)

\* C3: with no non-empty paragraph the run never divides by zero, never calls
\* the completion capability nor the callback, and saves a document with zero
\* rows (unless the save itself fails).
C3_EmptyInput ==
  \A w \in Workers :
    LET t == thr[w]
    IN  (Started(w) /\ t.pc /= "open" /\ InputOf(w).readable /\ NonBlankCount(w) = 0)
        => /\ t.pc \notin {"call", "append"}
           /\ t.error \in {"none", "save"}
           /\ t.progress_calls = <<>>
           /\ progress_value = <<0, 0>>
           /\ t.new_doc = <<>>
           /\ (t.pc = "done" /\ t.error = "none") =>
                (t.save_count = 1 /\ t.saved_doc = <<>>)

\* C3 witness: a saved run over whitespace-only paragraphs.
C3_Witness ==
  \E w \in Workers :
    /\ thr[w].pc = "done"
    /\ thr[w].save_count = 1
    /\ Len(thr[w].paragraphs) >= 2
    /\ NonBlankCount(w) = 0
    /\ \E i \in 1..Len(thr[w].paragraphs) : thr[w].paragraphs[i] /= <<>>

\* C4 as stated: when the retries are exhausted the caller of process_document
\* sees an error outcome, not a normal return.
C4_FailureReachesCaller ==
  \A w \in Workers :
    (thr[w].pc = "done" /\ thr[w].error = "completion") => thr[w].outcome = "raised"

\* C4 amended: when the retries are exhausted the run aborts without saving,
\* the failure is printed by process_document and the call returns normally.
C4_FailureLoggedAndSwallowed ==
  \A w \in Workers :
    (thr[w].pc = "done" /\ thr[w].error = "completion")
    => /\ thr[w].outcome = "returned"
       /\ thr[w].printed_error
       /\ thr[w].save_count = 0
       /\ Len(thr[w].new_doc) < NonBlankCount(w)

\* C4 witness: a run that ended on an exhausted paragraph after an earlier row.
C4_Witness ==
  \E w \in Workers :
    /\ thr[w].pc = "done"
    /\ thr[w].error = "completion"
    /\ Len(thr[w].new_doc) >= 1

\* C5: the output file is written at most once, only by a run without error
\* after all non-empty paragraphs were processed; a run that aborted (failed
\* completion, unreadable input, raising callback) never wrote it, and a run
\* that finished without error wrote it exactly once.
C5_SingleSaveAtEnd ==
  \A w \in Workers :
    LET t == thr[w]
    IN  /\ t.save_count <= 1
        /\ t.save_count = 1 =>
             /\ t.pc = "done"
             /\ t.error = "none"
             /\ t.processed_count = NonBlankCount(w)
             /\ Len(t.saved_doc) = NonBlankCount(w)
        /\ t.error /= "none" => (t.save_count = 0 /\ t.saved_doc = <<>>)
        /\ (t.pc = "done" /\ t.error = "none") => t.save_count = 1

\* C5 witness: a run aborted by the callback after two rows, nothing saved.
C5_Witness ==
  \E w \in Workers :
    /\ thr[w].pc = "done"
    /\ thr[w].error = "callback"
    /\ Len(thr[w].new_doc) >= 2
    /\ thr[w].save_count = 0

AllPresent == input_file /= <<>> /\ output_file /= <<>> /\ settings["api_key"] /= ""

Launches == \E w \in Workers : thr[w].pc = "idle" /\ thr'[w].pc /= "idle"

Rejects == ~snack_bar_open /\ snack_bar_open'

\* C6 as stated: a thread is launched iff the three values are present, and a
\* rejected start shows the notice, starts no thread and finds the progress
\* indicator hidden afterwards.
C6_RejectedStartHidden ==
  [][ /\ Launches => AllPresent
      /\ Rejects => (~AllPresent /\ thr' = thr /\ ~progress_visible') ]_vars

\* C6 amended: a thread is launched iff the three values are present; a
\* rejected start shows the notice, starts no thread and leaves the progress
\* indicator's visibility as it was.
C6_StartValidation ==
  [][ /\ Launches => (AllPresent /\ progress_visible')
      /\ Rejects => (~AllPresent /\ thr' = thr /\ progress_visible' = progress_visible)
      /\ (~dialog_open /\ AllPresent) => ~ENABLED start_processing_rejected
      /\ (~dialog_open /\ AllPresent /\ \E w \in Workers : thr[w].pc = "idle")
           => ENABLED (\E w \in Workers : start_processing(w))
      /\ (~dialog_open /\ ~AllPresent)
           => (ENABLED start_processing_rejected
               /\ ~ENABLED (\E w \in Workers : start_processing(w))) ]_vars

\* C6 witness: one start was rejected and another launched a thread.
C6_Witness ==
  /\ snack_bar_open
  /\ progress_visible
  /\ ~AllPresent
  /\ \E w \in Workers : Started(w)

\* C7: the prompt of the configuration is never empty.
C7_PromptNonEmpty == settings["prompt"] /= ""

\* C8: every completion request of a run carries the model and the prompt that
\* were in effect when the run was started.
C8_RunKeepsItsSettings ==
  \A w \in Workers :
    thr[w].request.made =>
      /\ thr[w].request.model = thr[w].start_settings["model"]
      /\ thr[w].request.prompt = thr[w].start_settings["prompt"]

\* C9: at most one thread is executing process_document at any time.
C9_SingleWorker ==
  Cardinality({ w \in Workers : thr[w].pc \notin {"idle", "done"} }) <= 1

\* C10: every completion request of a run carries the API key that
\* start_processing validated when it launched the run.
C10_RequestUsesConfiguredKey ==
  \A w \in Workers :
    thr[w].request.made => thr[w].request.api_key = thr[w].start_settings["api_key"]

====
